---- MODULE Spec2Model ----
(***************************************************************************)
(* On-Prem Document Thumbnail Service (src/app.py).                        *)
(*                                                                         *)
(* Strings (file names, ids, extensions) are sequences of one-character    *)
(* strings, byte strings are sequences of small naturals, the three stores *)
(* are the metadata index (metadata.json), the documents directory and the *)
(* thumbnails directory.  In Spec there is one action per HTTP handler and  *)
(* each action runs the whole handler; SpecConv runs the thumbnail router  *)
(* alone; SpecRace runs the upload handler statement by statement in       *)
(* several worker processes.                                               *)
(***************************************************************************)
EXTENDS Integers, Sequences, FiniteSets, TLC

VARIABLES
    metadata,    \* metadata.json: the dict doc_id -> info, in insertion order
    documents,   \* DOCUMENTS_DIR: file name -> bytes
    thumbnails,  \* THUMBNAILS_DIR: file name -> bytes
    tmp,         \* the temporary files and directories that exist
    issued,      \* number of uuid4() values drawn so far
    clock,       \* number of datetime.utcnow() readings taken so far
    pre,         \* the three stores as they were when the last request began
    last,        \* the last request and the response (or exception) it produced
    tasks        \* per worker process: the upload it is serving, statement by
                 \* statement (used by SpecRace only)

vars == <<metadata, documents, thumbnails, tmp, issued, clock, pre, last, tasks>>

(***************************************************************************)
(* Bounds of the model.                                                    *)
(***************************************************************************)
\* uploads that get as far as drawing an id
MaxUploads == 2

(***************************************************************************)
(* Configuration.                                                          *)
(***************************************************************************)
\* MAX_FILE_SIZE, scaled: the environment variable of the same name sets it
MAX_FILE_SIZE == 2

(***************************************************************************)
(* Strings.                                                                *)
(***************************************************************************)
NoStr == <<>>

PDF  == <<".", "p", "d", "f">>
DOCX == <<".", "d", "o", "c", "x">>
DOC  == <<".", "d", "o", "c">>
PPTX == <<".", "p", "p", "t", "x">>
PPT  == <<".", "p", "p", "t">>
PNG  == <<".", "p", "n", "g">>

\* str.lower() on the characters the model uses
LowerChar(c) ==
    CASE c = "P" -> "p"
      [] c = "D" -> "d"
      [] c = "F" -> "f"
      [] c = "O" -> "o"
      [] c = "C" -> "c"
      [] c = "X" -> "x"
      [] c = "T" -> "t"
      [] OTHER -> c

Lower(s) == [i \in 1..Len(s) |-> LowerChar(s[i])]

\* str.startswith / str.endswith
StartsWith(s, p) ==
    /\ Len(p) <= Len(s)
    /\ SubSeq(s, 1, Len(p)) = p

EndsWith(s, x) ==
    /\ Len(x) <= Len(s)
    /\ SubSeq(s, Len(s) - Len(x) + 1, Len(s)) = x

\* str.rfind, 1-based, 0 when absent
RFind(s, c) ==
    LET I == {i \in 1..Len(s) : s[i] = c}
    IN  IF I = {} THEN 0 ELSE CHOOSE i \in I : \A j \in I : j <= i

\* os.path.splitext(p)[1]: the suffix from the last dot, unless that dot is
\* before the last separator or only dots precede it in the base name
SplitExt(p) ==
    LET sepIndex == RFind(p, "/")
        dotIndex == RFind(p, ".")
    IN  IF /\ dotIndex > sepIndex
           /\ \E j \in (sepIndex + 1)..(dotIndex - 1) : p[j] # "."
        THEN SubSeq(p, dotIndex, Len(p))
        ELSE NoStr

(***************************************************************************)
(* uuid4().hex and utcnow(): fresh ids of one fixed length, rising times.  *)
(***************************************************************************)
HexChars == <<"a", "b", "c">>

\* the n-th id drawn (n >= 1): two characters, never repeated
Uuid4Hex(n) ==
    <<HexChars[(((n - 1) \div 3) % 3) + 1], HexChars[((n - 1) % 3) + 1]>>

\* the n-th clock reading, as the uploaded_at text
UtcNow(n) == 100 + n

NoTime == 0

(***************************************************************************)
(* Metadata helpers.                                                       *)
(***************************************************************************)
\* position of doc_id among the keys, 0 when absent
KeyIndex(md, doc_id) ==
    LET I == {i \in 1..Len(md) : md[i].doc_id = doc_id}
    IN  IF I = {} THEN 0 ELSE CHOOSE i \in I : TRUE

HasKey(md, doc_id) == KeyIndex(md, doc_id) # 0

\* an assignment that is never saved
add_file_metadata_Forget(md, doc_id, filename, extension, uploaded_at) == md

\* an assignment to an existing key keeps its position, a new key is appended
add_file_metadata(md, doc_id, filename, extension, uploaded_at) ==
    LET rec == [doc_id |-> doc_id, filename |-> filename,
                extension |-> extension, uploaded_at |-> uploaded_at]
    IN  IF HasKey(md, doc_id)
        THEN [md EXCEPT ![KeyIndex(md, doc_id)] = rec]
        ELSE Append(md, rec)

NoInfo == [doc_id |-> NoStr, filename |-> NoStr, extension |-> NoStr,
           uploaded_at |-> NoTime]

\* a lookup that never finds the name
check_duplicate_filename_Blind(md, filename) == NoInfo

\* the first record, in dict order, whose filename matches; NoInfo for
\* (None, None)
check_duplicate_filename(md, filename) ==
    LET I == {i \in 1..Len(md) : md[i].filename = filename}
    IN  IF I = {} THEN NoInfo
        ELSE md[CHOOSE i \in I : \A j \in I : i <= j]

\* a removal that never writes the dict back
remove_file_metadata_Noop(md, doc_id) == md

remove_file_metadata(md, doc_id) ==
    IF HasKey(md, doc_id)
    THEN SelectSeq(md, LAMBDA r : r.doc_id # doc_id)
    ELSE md

(***************************************************************************)
(* Directories: functions from file name to bytes.                         *)
(***************************************************************************)
EmptyDir == [n \in {} |-> <<>>]

Exists(dir, name) == name \in DOMAIN dir

\* open(path, "wb").write(bytes)
WriteFile(dir, name, bytes) ==
    [n \in (DOMAIN dir) \cup {name} |-> IF n = name THEN bytes ELSE dir[n]]

\* os.unlink / os.remove of the names in gone
Unlink(dir, gone) == [n \in (DOMAIN dir) \ gone |-> dir[n]]

(***************************************************************************)
(* Outcomes of a call: bytes returned, an HTTPException, or any other      *)
(* exception (which the framework answers with status 500).                *)
(***************************************************************************)
NoBytes == <<>>

NoDetail == [msg |-> "", filename |-> NoStr, supported_formats |-> <<>>,
             existing_doc_id |-> NoStr, existing_uploaded_at |-> NoTime,
             stderr |-> ""]

Returned(png) ==
    [kind |-> "png", status |-> 200, detail |-> NoDetail, png |-> png]

HTTPException(status, detail) ==
    [kind |-> "http", status |-> status, detail |-> detail, png |-> NoBytes]

OtherException(name) ==
    [kind |-> "error", status |-> 500,
     detail |-> [NoDetail EXCEPT !.msg = name], png |-> NoBytes]

(***************************************************************************)
(* PDF -> PNG.  The PDF library is outside the repository; the model reads *)
(* a byte string as a PDF when its first byte is 1, with one page per      *)
(* following byte, and a page's raster is the PNG signature byte followed  *)
(* by the page byte.                                                       *)
(***************************************************************************)
FitzOpens(pdf_bytes) == Len(pdf_bytes) >= 1 /\ pdf_bytes[1] = 1

PageCount(pdf_bytes) == Len(pdf_bytes) - 1

Pixmap(pdf_bytes) == <<137, pdf_bytes[2]>>

pdf_first_page_to_png(pdf_bytes) ==
    IF ~FitzOpens(pdf_bytes)
    THEN HTTPException(400, [NoDetail EXCEPT !.msg = "InvalidDocument"])
    ELSE IF PageCount(pdf_bytes) = 0
    THEN HTTPException(400, [NoDetail EXCEPT !.msg = "EmptyDocument"])
    ELSE Returned(Pixmap(pdf_bytes))

(***************************************************************************)
(* The temporary file system: path -> entry.  A path is <<name>> for an    *)
(* entry of the temporary root and <<dir, name>> for a file in a temporary *)
(* directory.                                                              *)
(***************************************************************************)
EmptyTmp == [p \in {} |-> [isdir |-> FALSE, mtime |-> 0, data |-> NoBytes]]

TmpFile(mtime, data) == [isdir |-> FALSE, mtime |-> mtime, data |-> data]

TmpDir == [isdir |-> TRUE, mtime |-> 0, data |-> NoBytes]

TmpPut(fs, path, entry) ==
    [p \in (DOMAIN fs) \cup {path} |-> IF p = path THEN entry ELSE fs[p]]

TmpDel(fs, paths) == [p \in (DOMAIN fs) \ paths |-> fs[p]]

\* os.listdir(dir)
ListDir(fs, dir) == {p[2] : p \in {q \in DOMAIN fs : Len(q) = 2 /\ q[1] = dir}}

\* NamedTemporaryFile(delete=False, suffix=ext).name and mkdtemp()
TmpInName(original_extension) == <<"t">> \o original_extension

TmpOutDirName == <<"o">>

(***************************************************************************)
(* One run of the external converter, as the environment decides it:       *)
(* how it ended and which files it left in the output directory.           *)
(***************************************************************************)
OutFile(name, mtime, data) == [name |-> name, mtime |-> mtime, data |-> data]

ExpectedPdf == <<"t">> \o PDF

OutDirs ==
    { {},
      {OutFile(ExpectedPdf, 1, <<1, 0>>)},
      {OutFile(ExpectedPdf, 1, <<0>>)},
      {OutFile(ExpectedPdf, 1, <<1>>)},
      {OutFile(ExpectedPdf, 1, <<1, 0>>), OutFile(<<"x">> \o PDF, 2, <<1, 1>>)},
      {OutFile(<<"x">> \o PDF, 1, <<1, 0>>),
       OutFile(<<"y", ".", "P", "D", "F">>, 2, <<1, 1>>)},
      {OutFile(<<"y", ".", "P", "D", "F">>, 1, <<1, 1>>),
       OutFile(<<"x">> \o PDF, 2, <<1, 0>>),
       OutFile(<<"j", ".", "t", "x", "t">>, 3, <<1, 1>>)},
      {OutFile(<<"j", ".", "t", "x", "t">>, 1, <<1, 0>>)} }

PartialOutDirs == { {}, {OutFile(ExpectedPdf, 1, <<1>>)} }

SofficeRuns ==
    {[kind |-> "exit", code |-> 0, stderr |-> "", files |-> fs] : fs \in OutDirs}
    \cup {[kind |-> "exit", code |-> 1, stderr |-> "soffice: error", files |-> fs] :
            fs \in PartialOutDirs}
    \cup {[kind |-> "timeout", code |-> 0, stderr |-> "", files |-> fs] :
            fs \in PartialOutDirs}
    \cup {[kind |-> "oserror", code |-> 0, stderr |-> "", files |-> {}]}

\* the run that stands for "the converter was not invoked"
NoRun == [kind |-> "none", code |-> 0, stderr |-> "", files |-> {}]

(***************************************************************************)
(* Office -> PDF via soffice -> PNG.                                       *)
(***************************************************************************)
\* a choice of the least recently modified candidate
NewestOf_Oldest(fs, dir, names) ==
    CHOOSE n \in names : \A m \in names : fs[<<dir, n>>].mtime <= fs[<<dir, m>>].mtime

\* max(pdf_candidates, key=os.path.getmtime)
NewestOf(fs, dir, names) ==
    CHOOSE n \in names : \A m \in names : fs[<<dir, m>>].mtime <= fs[<<dir, n>>].mtime

\* the temporary file system once the converter run has left its files in
\* the output directory
SofficeWrites(fs, tmp_out_dir, run) ==
    LET written == [p \in {<<tmp_out_dir, f.name>> : f \in run.files} |->
                      LET f == CHOOSE g \in run.files : g.name = p[2]
                      IN  TmpFile(f.mtime, f.data)]
    IN  [p \in (DOMAIN fs) \cup (DOMAIN written) |->
            IF p \in DOMAIN written THEN written[p] ELSE fs[p]]

\* the PDF to render after an exit code of 0: the expected path if it exists,
\* else the newest *.pdf of the output directory, else none (NoStr)
LocatePdf(after, tmp_in_name, tmp_out_dir) ==
    LET base_no_ext == SubSeq(tmp_in_name, 1,
                              Len(tmp_in_name) - Len(SplitExt(tmp_in_name)))
        guessed == base_no_ext \o PDF
        pdf_candidates == {f \in ListDir(after, tmp_out_dir) : EndsWith(Lower(f), PDF)}
    IN  IF <<tmp_out_dir, guessed>> \in DOMAIN after THEN guessed
        ELSE IF pdf_candidates = {} THEN NoStr
        ELSE NewestOf(after, tmp_out_dir, pdf_candidates)

\* a run whose exit code nobody looks at (check=False): a failed converter
\* is taken for one that wrote no PDF
ConvertOutcome_NoCheck(after, tmp_in_name, tmp_out_dir, run) ==
    LET pdf == LocatePdf(after, tmp_in_name, tmp_out_dir)
    IN  CASE run.kind = "oserror" -> OtherException("FileNotFoundError")
          [] run.kind = "timeout" ->
                HTTPException(500, [NoDetail EXCEPT !.msg = "ConversionTimeout"])
          [] OTHER ->
                IF pdf = NoStr
                THEN HTTPException(500,
                        [NoDetail EXCEPT !.msg = "ConversionProducedNoOutput",
                                         !.stderr = run.stderr])
                ELSE pdf_first_page_to_png(after[<<tmp_out_dir, pdf>>].data)

\* what the try block answers: the launch error, the two except clauses, the
\* missing PDF, or the Renderer's answer for the located PDF
ConvertOutcome(after, tmp_in_name, tmp_out_dir, run) ==
    LET pdf == LocatePdf(after, tmp_in_name, tmp_out_dir)
    IN  CASE run.kind = "oserror" -> OtherException("FileNotFoundError")
          [] run.kind = "timeout" ->
                HTTPException(500, [NoDetail EXCEPT !.msg = "ConversionTimeout"])
          [] run.kind = "exit" /\ run.code # 0 ->
                HTTPException(500, [NoDetail EXCEPT !.msg = "ConversionFailed",
                                                    !.stderr = run.stderr])
          [] OTHER ->
                IF pdf = NoStr
                THEN HTTPException(500,
                        [NoDetail EXCEPT !.msg = "ConversionProducedNoOutput",
                                         !.stderr = run.stderr])
                ELSE pdf_first_page_to_png(after[<<tmp_out_dir, pdf>>].data)

\* the try block: the converter is run by the one subprocess.run call, its
\* PDF is located and rendered.  Yields the call's outcome, the temporary
\* file system it leaves and the number of converter processes started.
ConvertAndRender(fs, tmp_in_name, tmp_out_dir, run) ==
    LET after == SofficeWrites(fs, tmp_out_dir, run)
    IN  [result  |-> ConvertOutcome(after, tmp_in_name, tmp_out_dir, run),
         tmp     |-> after,
         spawned |-> 1]

\* the finally block: unlink the input file, every file of the output
\* directory, then the directory (rmdir succeeds on an empty directory only)
Cleanup(fs, tmp_in_name, tmp_out_dir) ==
    LET no_in  == TmpDel(fs, {<<tmp_in_name>>})
        no_out == IF <<tmp_out_dir>> \in DOMAIN no_in /\ no_in[<<tmp_out_dir>>].isdir
                  THEN TmpDel(no_in, {<<tmp_out_dir, f>> : f \in ListDir(no_in, tmp_out_dir)})
                  ELSE no_in
    IN  IF /\ <<tmp_out_dir>> \in DOMAIN no_out
           /\ no_out[<<tmp_out_dir>>].isdir
           /\ ListDir(no_out, tmp_out_dir) = {}
        THEN TmpDel(no_out, {<<tmp_out_dir>>})
        ELSE no_out

\* a cleanup that the success path alone reaches
office_first_page_to_png_NoFinally(fs, file_bytes, original_extension, run) ==
    LET tmp_in_name == TmpInName(original_extension)
        tmp_out_dir == TmpOutDirName
        fs1  == TmpPut(fs, <<tmp_in_name>>, TmpFile(0, file_bytes))
        fs2  == TmpPut(fs1, <<tmp_out_dir>>, TmpDir)
        body == ConvertAndRender(fs2, tmp_in_name, tmp_out_dir, run)
    IN  IF body.result.kind = "png"
        THEN [body EXCEPT !.tmp = Cleanup(body.tmp, tmp_in_name, tmp_out_dir)]
        ELSE body

office_first_page_to_png(fs, file_bytes, original_extension, run) ==
    LET tmp_in_name == TmpInName(original_extension)
        tmp_out_dir == TmpOutDirName
        fs1  == TmpPut(fs, <<tmp_in_name>>, TmpFile(0, file_bytes))
        fs2  == TmpPut(fs1, <<tmp_out_dir>>, TmpDir)
        body == ConvertAndRender(fs2, tmp_in_name, tmp_out_dir, run)
    IN  [body EXCEPT !.tmp = Cleanup(body.tmp, tmp_in_name, tmp_out_dir)]

(***************************************************************************)
(* Routing on the file name's suffix.                                      *)
(***************************************************************************)
SupportedFormats == <<"PDF", "DOC", "DOCX", "PPT", "PPTX">>

UnsupportedFormat(filename) ==
    HTTPException(400, [NoDetail EXCEPT !.msg = "Unsupported file type",
                                        !.filename = filename,
                                        !.supported_formats = SupportedFormats])

\* a router that compares the suffix without lowering the name
Route_CaseSensitive(filename) ==
    CASE EndsWith(filename, PDF)  -> [converter |-> "renderer", ext |-> NoStr]
      [] EndsWith(filename, DOCX) -> [converter |-> "office", ext |-> DOCX]
      [] EndsWith(filename, DOC)  -> [converter |-> "office", ext |-> DOC]
      [] EndsWith(filename, PPTX) -> [converter |-> "office", ext |-> PPTX]
      [] EndsWith(filename, PPT)  -> [converter |-> "office", ext |-> PPT]
      [] OTHER                    -> [converter |-> "none", ext |-> NoStr]

\* which converter a file name is sent to, and with which extension
Route(filename) ==
    LET lower == Lower(filename)
    IN  CASE EndsWith(lower, PDF)  -> [converter |-> "renderer", ext |-> NoStr]
          [] EndsWith(lower, DOCX) -> [converter |-> "office", ext |-> DOCX]
          [] EndsWith(lower, DOC)  -> [converter |-> "office", ext |-> DOC]
          [] EndsWith(lower, PPTX) -> [converter |-> "office", ext |-> PPTX]
          [] EndsWith(lower, PPT)  -> [converter |-> "office", ext |-> PPT]
          [] OTHER                 -> [converter |-> "none", ext |-> NoStr]

\* the outcome, the temporary file system afterwards, the route taken and
\* the number of converter processes started
generate_thumbnail_png_bytes(fs, file_bytes, filename, run) ==
    LET route == Route(filename)
    IN  CASE route.converter = "renderer" ->
                [result |-> pdf_first_page_to_png(file_bytes), tmp |-> fs,
                 route |-> route, spawned |-> 0]
          [] route.converter = "office" ->
                office_first_page_to_png(fs, file_bytes, route.ext, run)
                    @@ [route |-> route]
          [] OTHER ->
                [result |-> UnsupportedFormat(filename), tmp |-> fs, route |-> route,
                 spawned |-> 0]

(***************************************************************************)
(* POST /upload.                                                           *)
(***************************************************************************)
\* a URL of a static mount: the mount and the file name under it
Url(mount, name) == [mount |-> mount, name |-> name]

NoUrl == Url("", NoStr)

NoRoute == [converter |-> "none", ext |-> NoStr]

\* the request of a handler call together with everything it answered
NoCall ==
    [op |-> "none", filename |-> NoStr, content |-> NoBytes,
     replace_existing |-> FALSE, run |-> NoRun, arg |-> NoStr,
     kind |-> "none", status |-> 0, detail |-> NoDetail,
     doc_id |-> NoStr, uploaded_at |-> NoTime,
     original_file_url |-> NoUrl, thumbnail_url |-> NoUrl,
     duplicate_replaced |-> FALSE, deleted |-> FALSE, removed_files |-> {},
     route |-> NoRoute, png |-> NoBytes, spawned |-> 0]

\* a store state: what a handler reads and writes
Store(md, docs, thumbs, fs, ids, ticks) ==
    [metadata |-> md, documents |-> docs, thumbnails |-> thumbs, tmp |-> fs,
     issued |-> ids, clock |-> ticks]

\* a replacement that forgets the prior thumbnail
ReplaceExisting_KeepThumb(st, existing) ==
    LET existing_doc == existing.doc_id \o existing.extension
    IN  [st EXCEPT !.documents = Unlink(st.documents, {existing_doc}),
                   !.metadata  = remove_file_metadata(st.metadata, existing.doc_id)]

\* step 4: the prior record's blobs and metadata entry are removed
ReplaceExisting(st, existing) ==
    LET existing_doc  == existing.doc_id \o existing.extension
        existing_thumb == existing.doc_id \o PNG
    IN  [st EXCEPT !.documents  = Unlink(st.documents, {existing_doc}),
                   !.thumbnails = Unlink(st.thumbnails, {existing_thumb}),
                   !.metadata   = remove_file_metadata(st.metadata, existing.doc_id)]

\* an original stored under the bare id
StoredDocName_NoExt(doc_id, ext) == doc_id

\* {doc_id}{ext} and {doc_id}.png
StoredDocName(doc_id, ext) == doc_id \o ext

StoredThumbName(doc_id) == doc_id \o PNG

\* the except clause around thumbnail generation: an HTTPException removes
\* the original just written, any other exception passes it by
Rollback(docs, stored_doc, result) ==
    IF result.kind = "http" THEN Unlink(docs, {stored_doc}) ELSE docs

\* steps 5 to 7: draw the id, write the original, convert, write the
\* thumbnail, record the metadata, build the response
StoreAndConvert(st, call, duplicate_replaced) ==
    LET doc_id == Uuid4Hex(st.issued + 1)
        ext    == SplitExt(call.filename)
        stored_doc   == StoredDocName(doc_id, ext)
        stored_thumb == StoredThumbName(doc_id)
        docs1 == WriteFile(st.documents, stored_doc, call.content)
        gen   == generate_thumbnail_png_bytes(st.tmp, call.content, call.filename,
                                              call.run)
        uploaded_at == UtcNow(st.clock + 1)
    IN  IF gen.result.kind # "png"
        THEN [st   |-> [st EXCEPT !.documents = Rollback(docs1, stored_doc, gen.result),
                                  !.tmp = gen.tmp,
                                  !.issued = st.issued + 1],
              call |-> [call EXCEPT !.kind = gen.result.kind,
                                    !.status = gen.result.status,
                                    !.detail = gen.result.detail,
                                    !.doc_id = doc_id,
                                    !.route = gen.route,
                                    !.spawned = gen.spawned]]
        ELSE [st   |-> [st EXCEPT !.documents = docs1,
                                  !.thumbnails = WriteFile(st.thumbnails, stored_thumb,
                                                           gen.result.png),
                                  !.metadata = add_file_metadata(st.metadata, doc_id,
                                                   call.filename, ext, uploaded_at),
                                  !.tmp = gen.tmp,
                                  !.issued = st.issued + 1,
                                  !.clock = st.clock + 1],
              call |-> [call EXCEPT !.kind = "ok",
                                    !.status = 200,
                                    !.doc_id = doc_id,
                                    !.uploaded_at = uploaded_at,
                                    !.original_file_url = Url("documents", doc_id \o ext),
                                    !.thumbnail_url = Url("thumbnails", doc_id \o PNG),
                                    !.duplicate_replaced = duplicate_replaced,
                                    !.route = gen.route,
                                    !.png = gen.result.png,
                                    !.spawned = gen.spawned]]

\* a size test that also turns away a payload of exactly the maximum
TooLarge_AtLimit(content) == Len(content) >= MAX_FILE_SIZE

\* the size test of step 3
TooLarge(content) == Len(content) > MAX_FILE_SIZE

\* a handler that tests the size before it looks for a duplicate
upload_document_SizeFirst(st, filename, content, replace_existing, run) ==
    LET call == [NoCall EXCEPT !.op = "upload", !.filename = filename,
                               !.content = content,
                               !.replace_existing = replace_existing,
                               !.run = run]
        existing == check_duplicate_filename(st.metadata, filename)
        found    == existing.doc_id # NoStr
    IN  IF content = NoBytes
        THEN [st |-> st,
              call |-> [call EXCEPT !.kind = "http", !.status = 400,
                                    !.detail = [NoDetail EXCEPT !.msg = "EmptyUpload"]]]
        ELSE IF TooLarge(content)
        THEN [st |-> st,
              call |-> [call EXCEPT !.kind = "http", !.status = 413,
                                    !.detail = [NoDetail EXCEPT !.msg = "TooLarge"]]]
        ELSE IF found /\ ~replace_existing
        THEN [st |-> st,
              call |-> [call EXCEPT !.kind = "http", !.status = 409,
                            !.detail = [NoDetail EXCEPT
                                !.msg = "DuplicateFilename",
                                !.filename = filename,
                                !.existing_doc_id = existing.doc_id,
                                !.existing_uploaded_at = existing.uploaded_at]]]
        ELSE IF found /\ replace_existing
        THEN StoreAndConvert(ReplaceExisting(st, existing), call, TRUE)
        ELSE StoreAndConvert(st, call, FALSE)

\* a handler that removes the prior document before it tests the size
upload_document_ReplaceFirst(st, filename, content, replace_existing, run) ==
    LET call == [NoCall EXCEPT !.op = "upload", !.filename = filename,
                               !.content = content,
                               !.replace_existing = replace_existing,
                               !.run = run]
        existing == check_duplicate_filename(st.metadata, filename)
        found    == existing.doc_id # NoStr
        st1      == IF found /\ replace_existing
                    THEN ReplaceExisting(st, existing) ELSE st
    IN  IF content = NoBytes
        THEN [st |-> st,
              call |-> [call EXCEPT !.kind = "http", !.status = 400,
                                    !.detail = [NoDetail EXCEPT !.msg = "EmptyUpload"]]]
        ELSE IF found /\ ~replace_existing
        THEN [st |-> st,
              call |-> [call EXCEPT !.kind = "http", !.status = 409,
                            !.detail = [NoDetail EXCEPT
                                !.msg = "DuplicateFilename",
                                !.filename = filename,
                                !.existing_doc_id = existing.doc_id,
                                !.existing_uploaded_at = existing.uploaded_at]]]
        ELSE IF TooLarge(content)
        THEN [st |-> st1,
              call |-> [call EXCEPT !.kind = "http", !.status = 413,
                                    !.detail = [NoDetail EXCEPT !.msg = "TooLarge"]]]
        ELSE StoreAndConvert(st1, call, found /\ replace_existing)

\* the whole handler: the store afterwards and the call with its answer
upload_document(st, filename, content, replace_existing, run) ==
    LET call == [NoCall EXCEPT !.op = "upload", !.filename = filename,
                               !.content = content,
                               !.replace_existing = replace_existing,
                               !.run = run]
        existing == check_duplicate_filename(st.metadata, filename)
        found    == existing.doc_id # NoStr
    IN  IF content = NoBytes
        THEN [st |-> st,
              call |-> [call EXCEPT !.kind = "http", !.status = 400,
                                    !.detail = [NoDetail EXCEPT !.msg = "EmptyUpload"]]]
        ELSE IF found /\ ~replace_existing
        THEN [st |-> st,
              call |-> [call EXCEPT !.kind = "http", !.status = 409,
                            !.detail = [NoDetail EXCEPT
                                !.msg = "DuplicateFilename",
                                !.filename = filename,
                                !.existing_doc_id = existing.doc_id,
                                !.existing_uploaded_at = existing.uploaded_at]]]
        ELSE IF TooLarge(content)
        THEN [st |-> st,
              call |-> [call EXCEPT !.kind = "http", !.status = 413,
                                    !.detail = [NoDetail EXCEPT !.msg = "TooLarge"]]]
        ELSE IF found /\ replace_existing
        THEN StoreAndConvert(ReplaceExisting(st, existing), call, TRUE)
        ELSE StoreAndConvert(st, call, FALSE)

(***************************************************************************)
(* GET /documents/{name} and GET /thumbnails/{name}: the static mounts.    *)
(***************************************************************************)
\* the mount serves the file (200) or has none of that name (404)
Served(docs, thumbs, url) ==
    \/ url.mount = "documents" /\ url.name \in DOMAIN docs
    \/ url.mount = "thumbnails" /\ url.name \in DOMAIN thumbs

StaticGet(docs, thumbs, url) ==
    IF url.mount = "documents" THEN docs[url.name] ELSE thumbs[url.name]

(***************************************************************************)
(* GET /files.                                                             *)
(***************************************************************************)
list_files(md) ==
    [files |-> [i \in 1..Len(md) |->
                  [doc_id |-> md[i].doc_id,
                   filename |-> md[i].filename,
                   uploaded_at |-> md[i].uploaded_at,
                   thumbnail_url |-> Url("thumbnails", md[i].doc_id \o PNG),
                   file_url |-> Url("documents", md[i].doc_id \o md[i].extension)]],
     total |-> Len(md)]

(***************************************************************************)
(* DELETE /delete/{doc_id}.                                                *)
(***************************************************************************)
\* a scan that looks for the bare id, without an extension
MatchingOriginals_Exact(docs, doc_id) == {n \in DOMAIN docs : n = doc_id}

\* the originals the scan of DOCUMENTS_DIR matches
MatchingOriginals(docs, doc_id) == {n \in DOMAIN docs : StartsWith(n, doc_id)}

\* a delete that reports the thumbnail but leaves it in place
delete_document_KeepThumb(st, doc_id) ==
    LET call      == [NoCall EXCEPT !.op = "delete", !.arg = doc_id]
        originals == MatchingOriginals(st.documents, doc_id)
        thumb     == doc_id \o PNG
        thumbs    == IF Exists(st.thumbnails, thumb) THEN {thumb} ELSE {}
        removed_paths == {Url("documents", n) : n \in originals}
                         \cup {Url("thumbnails", n) : n \in thumbs}
    IN  IF removed_paths = {}
        THEN [st |-> st,
              call |-> [call EXCEPT !.kind = "http", !.status = 404,
                                    !.detail = [NoDetail EXCEPT !.msg = "NotFound"]]]
        ELSE [st |-> [st EXCEPT !.documents = Unlink(st.documents, originals),
                                !.metadata = remove_file_metadata(st.metadata, doc_id)],
              call |-> [call EXCEPT !.kind = "ok", !.status = 200,
                                    !.doc_id = doc_id, !.deleted = TRUE,
                                    !.removed_files = removed_paths]]

delete_document(st, doc_id) ==
    LET call      == [NoCall EXCEPT !.op = "delete", !.arg = doc_id]
        originals == MatchingOriginals(st.documents, doc_id)
        thumb     == doc_id \o PNG
        thumbs    == IF Exists(st.thumbnails, thumb) THEN {thumb} ELSE {}
        removed_paths == {Url("documents", n) : n \in originals}
                         \cup {Url("thumbnails", n) : n \in thumbs}
    IN  IF removed_paths = {}
        THEN [st |-> st,
              call |-> [call EXCEPT !.kind = "http", !.status = 404,
                                    !.detail = [NoDetail EXCEPT !.msg = "NotFound"]]]
        ELSE [st |-> [st EXCEPT !.documents = Unlink(st.documents, originals),
                                !.thumbnails = Unlink(st.thumbnails, thumbs),
                                !.metadata = remove_file_metadata(st.metadata, doc_id)],
              call |-> [call EXCEPT !.kind = "ok", !.status = 200,
                                    !.doc_id = doc_id, !.deleted = TRUE,
                                    !.removed_files = removed_paths]]

(***************************************************************************)
(* The requests the service model sends.                                   *)
(***************************************************************************)
\* empty; a PDF of no pages; two one-page PDFs of exactly MAX_FILE_SIZE
\* bytes; one byte over MAX_FILE_SIZE
UploadContents ==
    { <<>>, <<1>>, <<1, 0>>, <<1, 1>>,
      [i \in 1..(MAX_FILE_SIZE + 1) |-> 1] }

UploadNames ==
    { <<"r">> \o PDF,
      <<"m">> \o DOCX,
      <<"n", ".", "t", "x", "t">> }

\* converter runs of the service model: a good PDF, exit 1, timeout,
\* executable missing
UploadRuns ==
    {r \in SofficeRuns :
        \/ r.kind = "oserror"
        \/ r.kind = "timeout" /\ r.files = {}
        \/ r.kind = "exit" /\ r.code # 0 /\ r.files = {}
        \/ r.kind = "exit" /\ r.code = 0
             /\ r.files = {OutFile(ExpectedPdf, 1, <<1, 0>>)}}

\* the converter runs a file name can meet: none unless it is an Office name
RunsFor(filename, runs) ==
    IF Route(filename).converter = "office" THEN runs ELSE {NoRun}

\* ids drawn so far or later, a proper prefix, an id with its dot, a stranger
DeleteArgs ==
    {Uuid4Hex(n) : n \in 1..MaxUploads}
    \cup {<<"a">>, Uuid4Hex(1) \o <<".">>, <<"c", "c">>}

(***************************************************************************)
(* The service: uploads and deletes, one request at a time.                *)
(***************************************************************************)
\* the worker processes that serve requests over the one storage directory
Workers == {"w1", "w2"}

\* a worker that has not received its request
NoTask ==
    [pc |-> "idle", filename |-> NoStr, content |-> NoBytes,
     replace_existing |-> FALSE, run |-> NoRun, existing |-> NoInfo,
     duplicate_replaced |-> FALSE, doc_id |-> NoStr, md |-> <<>>,
     png |-> NoBytes, uploaded_at |-> NoTime, kind |-> "none", status |-> 0,
     msg |-> ""]

NoTasks == [w \in Workers |-> NoTask]

Current == Store(metadata, documents, thumbnails, tmp, issued, clock)

Snapshot == [metadata |-> metadata, documents |-> documents,
             thumbnails |-> thumbnails]

Apply(out) ==
    /\ metadata'   = out.st.metadata
    /\ documents'  = out.st.documents
    /\ thumbnails' = out.st.thumbnails
    /\ tmp'        = out.st.tmp
    /\ issued'     = out.st.issued
    /\ clock'      = out.st.clock
    /\ pre'        = Snapshot
    /\ last'       = out.call
    /\ UNCHANGED tasks

Init ==
    /\ metadata   = <<>>
    /\ documents  = EmptyDir
    /\ thumbnails = EmptyDir
    /\ tmp        = EmptyTmp
    /\ issued     = 0
    /\ clock      = 0
    /\ pre        = [metadata |-> <<>>, documents |-> EmptyDir,
                     thumbnails |-> EmptyDir]
    /\ last       = NoCall
    /\ tasks      = NoTasks

Upload ==
    \E filename \in UploadNames, content \in UploadContents,
       replace_existing \in BOOLEAN :
        \E run \in RunsFor(filename, UploadRuns) :
            LET out == upload_document(Current, filename, content,
                                       replace_existing, run)
            IN  /\ out.st.issued <= MaxUploads
                /\ Apply(out)

Delete ==
    \E doc_id \in DeleteArgs :
        Apply(delete_document(Current, doc_id))

Next == Upload \/ Delete

Spec == Init /\ [][Next]_vars

(***************************************************************************)
(* The conversion pipeline on its own: the Format Router applied to a file *)
(* name, bytes and a converter run drawn from the sets below, with other   *)
(* requests' temporaries already present or not.                           *)
(***************************************************************************)
RouteNames ==
    { <<"r">> \o PDF,
      <<"r", ".", "P", "d", "F">>,
      <<"m">> \o DOCX,
      <<"m", ".", "D", "o", "c", "X">>,
      <<"m">> \o DOC,
      <<"m", ".", "D", "O", "C">>,
      <<"s">> \o PPTX,
      <<"s", ".", "P", "P", "T", "X">>,
      <<"s">> \o PPT,
      <<"s", ".", "p", "P", "t">>,
      PDF,
      <<"n">>,
      <<"d", "o", "c">>,
      <<"p", "d", "f">>,
      <<"n", ".", "t", "x", "t">>,
      <<"r">> \o PDF \o <<"x">>,
      <<"m">> \o DOCX \o <<".", "n">>,
      <<"s">> \o PPT \o <<".">> }

RouteContents == { <<1, 0>>, <<1, 1>>, <<1>>, <<0, 1>> }

\* a temporary input file of another request
ForeignTmp == TmpPut(EmptyTmp, <<<<"u">> \o DOCX>>, TmpFile(0, <<1, 1>>))

InitConv ==
    /\ metadata   = <<>>
    /\ documents  = EmptyDir
    /\ thumbnails = EmptyDir
    /\ tmp        \in {EmptyTmp, ForeignTmp}
    /\ issued     = 0
    /\ clock      = 0
    /\ pre        = [metadata |-> <<>>, documents |-> EmptyDir,
                     thumbnails |-> EmptyDir]
    /\ last       = NoCall
    /\ tasks      = NoTasks

Generate ==
    /\ last.op = "none"
    /\ \E filename \in RouteNames, content \in RouteContents :
        \E run \in RunsFor(filename, SofficeRuns) :
            LET gen == generate_thumbnail_png_bytes(tmp, content, filename, run)
            IN  /\ tmp'  = gen.tmp
                /\ last' = [NoCall EXCEPT !.op = "generate",
                                          !.filename = filename,
                                          !.content = content,
                                          !.run = run,
                                          !.kind = gen.result.kind,
                                          !.status = gen.result.status,
                                          !.detail = gen.result.detail,
                                          !.route = gen.route,
                                          !.png = gen.result.png,
                                          !.spawned = gen.spawned]
                /\ UNCHANGED <<metadata, documents, thumbnails, issued, clock, pre,
                               tasks>>

NextConv == Generate

SpecConv == InitConv /\ [][NextConv]_vars

(***************************************************************************)
(* POST /upload served by several worker processes over one storage        *)
(* directory, statement by statement.  Every step is one access to the     *)
(* shared files (a read or a write of metadata.json, a write or an unlink  *)
(* in a directory) together with the local computation that leads to it;   *)
(* nothing in the handler locks anything.  A single access is taken to be  *)
(* atomic.                                                                 *)
(***************************************************************************)
RaceNames == { <<"r">> \o PDF, <<"m">> \o DOCX }

\* empty, a one-page PDF, one byte over MAX_FILE_SIZE
RaceContents == { <<>>, <<1, 0>>, [i \in 1..(MAX_FILE_SIZE + 1) |-> 1] }

\* a good PDF, exit 1, executable missing
RaceRuns == {r \in UploadRuns : r.kind # "timeout"}

\* the answer sent, after which the worker serves nothing more
Answer(task, kind, status, msg) ==
    [task EXCEPT !.pc = "done", !.kind = kind, !.status = status, !.msg = msg]

\* content = await file.read(), and the test for an empty upload
Receive(t) ==
    /\ tasks[t].pc = "idle"
    /\ \E filename \in RaceNames, content \in RaceContents,
          replace_existing \in BOOLEAN :
        \E run \in RunsFor(filename, RaceRuns) :
            LET task == [NoTask EXCEPT !.filename = filename,
                                       !.content = content,
                                       !.replace_existing = replace_existing,
                                       !.run = run]
            IN  tasks' = [tasks EXCEPT ![t] =
                            IF content = NoBytes
                            THEN Answer(task, "http", 400, "EmptyUpload")
                            ELSE [task EXCEPT !.pc = "check"]]
    /\ UNCHANGED <<metadata, documents, thumbnails, tmp, issued, clock, pre, last>>

\* check_duplicate_filename reads metadata.json; then the 409 and the 413
CheckDuplicate(t) ==
    LET task     == tasks[t]
        existing == check_duplicate_filename(metadata, task.filename)
        found    == existing.doc_id # NoStr
    IN  /\ task.pc = "check"
        /\ tasks' = [tasks EXCEPT ![t] =
                        IF found /\ ~task.replace_existing
                        THEN Answer(task, "http", 409, "DuplicateFilename")
                        ELSE IF TooLarge(task.content)
                        THEN Answer(task, "http", 413, "TooLarge")
                        ELSE IF found
                        THEN [task EXCEPT !.pc = "replace", !.existing = existing]
                        ELSE [task EXCEPT !.pc = "write"]]
        /\ UNCHANGED <<metadata, documents, thumbnails, tmp, issued, clock, pre, last>>

\* the two os.unlink calls of the replacement
UnlinkExisting(t) ==
    LET task == tasks[t]
    IN  /\ task.pc = "replace"
        /\ documents' = Unlink(documents,
                               {task.existing.doc_id \o task.existing.extension})
        /\ thumbnails' = Unlink(thumbnails, {task.existing.doc_id \o PNG})
        /\ tasks' = [tasks EXCEPT ![t].pc = "rm_load"]
        /\ UNCHANGED <<metadata, tmp, issued, clock, pre, last>>

\* remove_file_metadata: metadata = load_metadata()
RemoveLoad(t) ==
    /\ tasks[t].pc = "rm_load"
    /\ tasks' = [tasks EXCEPT ![t].pc = "rm_save", ![t].md = metadata]
    /\ UNCHANGED <<metadata, documents, thumbnails, tmp, issued, clock, pre, last>>

\* remove_file_metadata: if doc_id in metadata, del and save_metadata
RemoveSave(t) ==
    LET task == tasks[t]
    IN  /\ task.pc = "rm_save"
        /\ metadata' = IF HasKey(task.md, task.existing.doc_id)
                       THEN remove_file_metadata(task.md, task.existing.doc_id)
                       ELSE metadata
        /\ tasks' = [tasks EXCEPT ![t].pc = "write",
                                  ![t].duplicate_replaced = TRUE]
        /\ UNCHANGED <<documents, thumbnails, tmp, issued, clock, pre, last>>

\* doc_id = uuid.uuid4().hex, and the original is written
WriteOriginal(t) ==
    LET task   == tasks[t]
        doc_id == Uuid4Hex(issued + 1)
    IN  /\ task.pc = "write"
        /\ issued' = issued + 1
        /\ documents' = WriteFile(documents,
                                  StoredDocName(doc_id, SplitExt(task.filename)),
                                  task.content)
        /\ tasks' = [tasks EXCEPT ![t].pc = "convert", ![t].doc_id = doc_id]
        /\ UNCHANGED <<metadata, thumbnails, tmp, clock, pre, last>>

\* generate_thumbnail_png_bytes inside the try, with the except clause
Convert(t) ==
    LET task == tasks[t]
        gen  == generate_thumbnail_png_bytes(tmp, task.content, task.filename,
                                             task.run)
        stored_doc == StoredDocName(task.doc_id, SplitExt(task.filename))
    IN  /\ task.pc = "convert"
        /\ tmp' = gen.tmp
        /\ IF gen.result.kind = "png"
           THEN /\ tasks' = [tasks EXCEPT ![t].pc = "thumb",
                                          ![t].png = gen.result.png]
                /\ UNCHANGED documents
           ELSE /\ tasks' = [tasks EXCEPT ![t] =
                                Answer(task, gen.result.kind, gen.result.status,
                                       gen.result.detail.msg)]
                /\ documents' = Rollback(documents, stored_doc, gen.result)
        /\ UNCHANGED <<metadata, thumbnails, issued, clock, pre, last>>

\* the thumbnail is written
WriteThumb(t) ==
    LET task == tasks[t]
    IN  /\ task.pc = "thumb"
        /\ thumbnails' = WriteFile(thumbnails, StoredThumbName(task.doc_id), task.png)
        /\ tasks' = [tasks EXCEPT ![t].pc = "add_load"]
        /\ UNCHANGED <<metadata, documents, tmp, issued, clock, pre, last>>

\* uploaded_at = utcnow(); add_file_metadata: metadata = load_metadata()
AddLoad(t) ==
    /\ tasks[t].pc = "add_load"
    /\ clock' = clock + 1
    /\ tasks' = [tasks EXCEPT ![t].pc = "add_save",
                              ![t].uploaded_at = UtcNow(clock + 1),
                              ![t].md = metadata]
    /\ UNCHANGED <<metadata, documents, thumbnails, tmp, issued, pre, last>>

\* add_file_metadata: metadata[doc_id] = {...}; save_metadata(metadata); and
\* the 200 response
AddSave(t) ==
    LET task == tasks[t]
    IN  /\ task.pc = "add_save"
        /\ metadata' = add_file_metadata(task.md, task.doc_id, task.filename,
                                         SplitExt(task.filename), task.uploaded_at)
        /\ tasks' = [tasks EXCEPT ![t] = Answer(task, "ok", 200, "")]
        /\ UNCHANGED <<documents, thumbnails, tmp, issued, clock, pre, last>>

NextRace ==
    \E t \in Workers :
        \/ Receive(t)
        \/ CheckDuplicate(t)
        \/ UnlinkExisting(t)
        \/ RemoveLoad(t)
        \/ RemoveSave(t)
        \/ WriteOriginal(t)
        \/ Convert(t)
        \/ WriteThumb(t)
        \/ AddLoad(t)
        \/ AddSave(t)

SpecRace == Init /\ [][NextRace]_vars

(***************************************************************************)
(* Properties.                                                             *)
(***************************************************************************)
\* the records of a metadata dict that carry a file name
Named(md, filename) == {md[i] : i \in {j \in 1..Len(md) : md[j].filename = filename}}

\* the router turns these bytes, under this name and converter run, into a PNG
Convertible(filename, content, run) ==
    generate_thumbnail_png_bytes(EmptyTmp, content, filename, run).result.kind = "png"

WithinLimit(content) == Len(content) >= 1 /\ Len(content) <= MAX_FILE_SIZE

\* C1: a non-empty upload of a file name that already has a record fails,
\* without replace_existing, with 409 carrying that record's id and timestamp
\* and leaves the three stores as they were; with replace_existing, when it is
\* within the limit and convertible, it succeeds with duplicate_replaced, the
\* prior id's original, thumbnail and record are gone, and the only record of
\* that name is the new id's, whose two blobs exist.
C1_DuplicatePolicy ==
    (last.op = "upload" /\ last.content # NoBytes) =>
        \A r \in Named(pre.metadata, last.filename) :
            IF ~last.replace_existing
            THEN /\ last.status = 409
                 /\ last.detail.existing_doc_id = r.doc_id
                 /\ last.detail.existing_uploaded_at = r.uploaded_at
                 /\ Snapshot = pre
            ELSE (WithinLimit(last.content)
                    /\ Convertible(last.filename, last.content, last.run)) =>
                 /\ last.status = 200
                 /\ last.duplicate_replaced
                 /\ last.doc_id # r.doc_id
                 /\ (r.doc_id \o r.extension) \notin DOMAIN documents
                 /\ (r.doc_id \o PNG) \notin DOMAIN thumbnails
                 /\ ~HasKey(metadata, r.doc_id)
                 /\ {x.doc_id : x \in Named(metadata, last.filename)} = {last.doc_id}
                 /\ (last.doc_id \o SplitExt(last.filename)) \in DOMAIN documents
                 /\ (last.doc_id \o PNG) \in DOMAIN thumbnails

\* two uploads of one name in a row, the second one replacing the first
C1_Witness ==
    /\ last.op = "upload" /\ last.replace_existing /\ last.status = 200
    /\ last.duplicate_replaced
    /\ Len(pre.metadata) = 1
    /\ pre.metadata[1].doc_id = Uuid4Hex(1)
    /\ pre.metadata[1].filename = last.filename
    /\ last.doc_id = Uuid4Hex(2)

\* C2: when the conversion stage fails after the original was written, no
\* original, thumbnail or record of that request's id remains, and the answer
\* is the router's failure.
C2_RollbackOnAnyFailure ==
    (last.op = "upload" /\ last.doc_id # NoStr /\ last.kind # "ok") =>
        /\ MatchingOriginals(documents, last.doc_id) = {}
        /\ (last.doc_id \o PNG) \notin DOMAIN thumbnails
        /\ ~HasKey(metadata, last.doc_id)
        /\ LET gen == generate_thumbnail_png_bytes(EmptyTmp, last.content,
                                                   last.filename, last.run)
           IN  last.status = gen.result.status /\ last.detail = gen.result.detail

\* what a delete of this id would do to a store
ThenDelete(st, doc_id) == delete_document(st, doc_id)

\* C3: right after a successful upload, deleting the returned id succeeds with
\* deleted = true and deleting it again fails with 404 and changes nothing;
\* and after any successful delete, the same delete again fails with 404 and
\* changes nothing.
C3_DeleteTwice ==
    /\ (last.op = "upload" /\ last.status = 200) =>
          LET d1 == ThenDelete(Current, last.doc_id)
              d2 == ThenDelete(d1.st, last.doc_id)
          IN  /\ d1.call.status = 200 /\ d1.call.deleted
              /\ d2.call.status = 404 /\ ~d2.call.deleted
              /\ d2.st = d1.st
    /\ (last.op = "delete" /\ last.status = 200) =>
          LET d2 == ThenDelete(Current, last.arg)
          IN  /\ d2.call.status = 404 /\ ~d2.call.deleted
              /\ d2.st = Current

\* a stored document has just been deleted by its id
C3_Witness ==
    /\ last.op = "delete" /\ last.status = 200 /\ last.deleted
    /\ HasKey(pre.metadata, last.arg)
    /\ Cardinality(last.removed_files) = 2
    /\ ThenDelete(Current, last.arg).call.status = 404

\* the record of an id, with both of its blobs, is in the stores before the call
Intact(snap, doc_id) ==
    /\ HasKey(snap.metadata, doc_id)
    /\ LET r == snap.metadata[KeyIndex(snap.metadata, doc_id)]
       IN  (doc_id \o r.extension) \in DOMAIN snap.documents
    /\ (doc_id \o PNG) \in DOMAIN snap.thumbnails

\* the answer and the store after deleting a document whose extension is ext
DeletedBoth(call, st, doc_id, ext) ==
    /\ call.status = 200
    /\ call.removed_files = {Url("documents", doc_id \o ext),
                             Url("thumbnails", doc_id \o PNG)}
    /\ Cardinality(call.removed_files) = 2
    /\ (doc_id \o ext) \notin DOMAIN st.documents
    /\ (doc_id \o PNG) \notin DOMAIN st.thumbnails
    /\ LET listing == list_files(st.metadata)
       IN  \A i \in 1..listing.total : listing.files[i].doc_id # doc_id

\* C4: deleting a stored document (record, original and thumbnail present)
\* by its id answers 200 with exactly the two paths {id}{ext} and {id}.png in
\* removed_files, after which neither blob exists and GET /files has no entry
\* for the id; in particular so for the id a successful upload just returned.
C4_DeletePostcondition ==
    /\ (last.op = "delete" /\ Intact(pre, last.arg)) =>
          DeletedBoth(last, Current, last.arg,
                      pre.metadata[KeyIndex(pre.metadata, last.arg)].extension)
    /\ (last.op = "upload" /\ last.status = 200) =>
          LET d == ThenDelete(Current, last.doc_id)
          IN  DeletedBoth(d.call, d.st, last.doc_id, SplitExt(last.filename))

\* a stored document has been deleted while another one stays listed
C4_Witness ==
    /\ last.op = "delete" /\ Intact(pre, last.arg)
    /\ Len(pre.metadata) = 2
    /\ list_files(metadata).total = 1

\* C5: a delete fails with 404 exactly when no original whose name starts with
\* the id and no thumbnail {id}.png was there, and then changes nothing;
\* otherwise, whichever blobs were there, no record of the id remains.
C5_DeleteMetadata ==
    (last.op = "delete") =>
        LET originals == {n \in DOMAIN pre.documents : StartsWith(n, last.arg)}
            thumb     == (last.arg \o PNG) \in DOMAIN pre.thumbnails
            found     == originals # {} \/ thumb
        IN  /\ (last.status = 404) <=> ~found
            /\ ~found => Snapshot = pre
            /\ found => last.status = 200 /\ ~HasKey(metadata, last.arg)

\* a delete that found the thumbnail alone and removed the record with it
C5_Witness ==
    /\ last.op = "delete" /\ last.status = 200
    /\ HasKey(pre.metadata, last.arg)
    /\ last.removed_files = {Url("thumbnails", last.arg \o PNG)}
    /\ ~HasKey(metadata, last.arg)

\* C6: an upload that is not empty and not turned away as a duplicate is
\* rejected with 413 exactly when it is longer than MAX_FILE_SIZE; at exactly
\* MAX_FILE_SIZE bytes, when convertible, it is accepted and stored; one byte
\* over, it is rejected and nothing changes.
C6_SizeBoundary ==
    (/\ last.op = "upload"
     /\ Len(last.content) >= 1
     /\ (Named(pre.metadata, last.filename) = {} \/ last.replace_existing)) =>
        /\ (last.status = 413) <=> (Len(last.content) > MAX_FILE_SIZE)
        /\ (/\ Len(last.content) = MAX_FILE_SIZE
            /\ Convertible(last.filename, last.content, last.run)) =>
                /\ last.status = 200
                /\ Served(documents, thumbnails, last.original_file_url)
                /\ StaticGet(documents, thumbnails, last.original_file_url)
                      = last.content
        /\ (Len(last.content) = MAX_FILE_SIZE + 1) =>
                /\ last.status = 413
                /\ Snapshot = pre

\* a payload of exactly the maximum was stored under a new name
C6_Witness ==
    /\ last.op = "upload"
    /\ Len(last.content) = MAX_FILE_SIZE
    /\ Named(pre.metadata, last.filename) = {}
    /\ last.status = 200
    /\ (last.doc_id \o SplitExt(last.filename)) \in DOMAIN documents

\* C7: an empty upload is rejected with 400 EmptyUpload even when its name is
\* a duplicate, and a non-empty upload of a duplicate name without
\* replace_existing is rejected with 409 even when it is oversized.
C7_ValidationOrder ==
    (last.op = "upload") =>
        /\ (last.content = NoBytes) =>
              /\ last.status = 400
              /\ last.detail.msg = "EmptyUpload"
        /\ (/\ last.content # NoBytes
            /\ Named(pre.metadata, last.filename) # {}
            /\ ~last.replace_existing) =>
              /\ last.status = 409
              /\ last.detail.msg = "DuplicateFilename"

\* an oversized duplicate was answered with 409
C7_Witness ==
    /\ last.op = "upload"
    /\ Len(last.content) > MAX_FILE_SIZE
    /\ Named(pre.metadata, last.filename) # {}
    /\ ~last.replace_existing
    /\ last.status = 409

\* the blobs of a record are the same in two snapshots of the stores
SameBlobs(before, docs, thumbs, r) ==
    /\ LET n == r.doc_id \o r.extension
       IN  n \in DOMAIN before.documents =>
              n \in DOMAIN docs /\ docs[n] = before.documents[n]
    /\ LET t == r.doc_id \o PNG
       IN  t \in DOMAIN before.thumbnails =>
              t \in DOMAIN thumbs /\ thumbs[t] = before.thumbnails[t]

\* C10: after a successful upload the returned original_file_url is
\* /documents/{id}{ext} and serves the uploaded bytes, the returned
\* thumbnail_url is /thumbnails/{id}.png and serves the PNG the router made of
\* them; and an upload that is not a replacing upload of a record's file name
\* leaves that record's two blobs as they were.
C10_RoundTrip ==
    /\ (last.op = "upload" /\ last.status = 200) =>
          /\ last.original_file_url
                = Url("documents", last.doc_id \o SplitExt(last.filename))
          /\ Served(documents, thumbnails, last.original_file_url)
          /\ StaticGet(documents, thumbnails, last.original_file_url) = last.content
          /\ last.thumbnail_url = Url("thumbnails", last.doc_id \o PNG)
          /\ Served(documents, thumbnails, last.thumbnail_url)
          /\ StaticGet(documents, thumbnails, last.thumbnail_url)
                = generate_thumbnail_png_bytes(EmptyTmp, last.content,
                                               last.filename, last.run).result.png
    /\ (last.op = "upload") =>
          \A i \in 1..Len(pre.metadata) :
              ~(pre.metadata[i].filename = last.filename /\ last.replace_existing)
                  => SameBlobs(pre, documents, thumbnails, pre.metadata[i])

\* an Office upload succeeded beside a stored document of another name
C10_Witness ==
    /\ last.op = "upload" /\ last.status = 200
    /\ last.route.converter = "office"
    /\ Len(pre.metadata) = 1
    /\ pre.metadata[1].filename # last.filename
    /\ Len(metadata) = 2

\* C8: when a call of the Office Converter has ended, however it ended, its
\* temporary input file and its temporary output directory, with every file
\* in it, are gone, and other requests' temporaries are as they were.
C8_ScopedCleanup ==
    (last.op = "generate" /\ last.route.converter = "office") =>
        /\ \A p \in DOMAIN tmp :
              p[1] \notin {TmpInName(last.route.ext), TmpOutDirName}
        /\ tmp \in {EmptyTmp, ForeignTmp}

\* the converter timed out and left a partial file behind
C8_Witness ==
    /\ last.op = "generate" /\ last.route.converter = "office"
    /\ last.run.kind = "timeout" /\ last.run.files # {}
    /\ last.status = 500
    /\ tmp = ForeignTmp

OfficeExts == {DOCX, DOC, PPTX, PPT}

\* C9: by the lowered name's suffix, .pdf goes to the Renderer, each of
\* .docx, .doc, .pptx, .ppt goes to the Office Converter with exactly that
\* extension, and any other name fails with 400 listing the five supported
\* formats, no converter having run.
C9_FormatRouting ==
    (last.op = "generate") =>
        LET lower == Lower(last.filename)
        IN  /\ EndsWith(lower, PDF) =>
                  /\ last.route.converter = "renderer"
                  /\ last.run = NoRun
            /\ \A e \in OfficeExts :
                  EndsWith(lower, e) =>
                      last.route = [converter |-> "office", ext |-> e]
            /\ (~EndsWith(lower, PDF) /\ \A e \in OfficeExts : ~EndsWith(lower, e)) =>
                  /\ last.route.converter = "none"
                  /\ last.kind = "http" /\ last.status = 400
                  /\ last.detail.supported_formats
                        = <<"PDF", "DOC", "DOCX", "PPT", "PPTX">>
                  /\ last.png = NoBytes
                  /\ last.run = NoRun

\* a .DocX name went to the Office Converter as .docx
C9_Witness ==
    /\ last.op = "generate"
    /\ last.filename = <<"m", ".", "D", "o", "c", "X">>
    /\ last.route = [converter |-> "office", ext |-> DOCX]
    /\ last.run.kind = "exit"

\* the answer of the last request is what the Renderer answers for pdf_bytes
AnswersAsRenderer(pdf_bytes) ==
    LET r == pdf_first_page_to_png(pdf_bytes)
    IN  /\ last.kind = r.kind
        /\ last.status = r.status
        /\ last.detail = r.detail
        /\ last.png = r.png

\* the answer of the last request is the 500 failure named msg, without PNG
FailsWith(msg) ==
    /\ last.kind = "http"
    /\ last.status = 500
    /\ last.detail.msg = msg
    /\ last.png = NoBytes

\* the files a converter run left whose lowered name ends with .pdf
PdfsOf(run) == {f \in run.files : EndsWith(Lower(f.name), PDF)}

\* C12: a call of the Office Converter starts the external converter exactly
\* once; a timeout answers ConversionTimeout, a non-zero exit code answers
\* ConversionFailed with the converter's stderr, an exit code of 0 without
\* any PDF answers ConversionProducedNoOutput, and with a PDF the answer is
\* the Renderer's own answer for one of the PDFs the run wrote, its failures
\* included.
C12_ErrorTaxonomy ==
    (last.op = "generate" /\ last.route.converter = "office") =>
        /\ last.spawned = 1
        /\ (last.run.kind = "timeout") => FailsWith("ConversionTimeout")
        /\ (last.run.kind = "exit" /\ last.run.code # 0) =>
              /\ FailsWith("ConversionFailed")
              /\ last.detail.stderr = last.run.stderr
        /\ (last.run.kind = "exit" /\ last.run.code = 0 /\ PdfsOf(last.run) = {}) =>
              FailsWith("ConversionProducedNoOutput")
        /\ (last.run.kind = "exit" /\ last.run.code = 0 /\ PdfsOf(last.run) # {}) =>
              \E f \in PdfsOf(last.run) : AnswersAsRenderer(f.data)

\* a converter that exited with code 1 after writing nothing was run once and
\* answered ConversionFailed with its stderr
C12_Witness ==
    /\ last.op = "generate"
    /\ last.route.converter = "office"
    /\ last.run.kind = "exit" /\ last.run.code = 1 /\ last.run.files = {}
    /\ last.spawned = 1
    /\ last.detail.msg = "ConversionFailed"
    /\ last.detail.stderr = "soffice: error"

\* the Renderer's failure on a converted PDF that it cannot open comes back
\* as it is
C12_WitnessRenderer ==
    /\ last.op = "generate"
    /\ last.route.converter = "office"
    /\ last.run.kind = "exit" /\ last.run.code = 0
    /\ last.status = 400
    /\ last.detail.msg = "InvalidDocument"

\* C13: after an exit code of 0 the file at the expected path (the input's
\* base name plus .pdf) is rendered whenever it exists, whatever else the
\* output directory holds; otherwise the most recently modified file whose
\* name ends with .pdf in any letter case is rendered; with no such file the
\* call fails with ConversionProducedNoOutput and nothing is rendered.
C13_LocatePdf ==
    (/\ last.op = "generate"
     /\ last.route.converter = "office"
     /\ last.run.kind = "exit" /\ last.run.code = 0) =>
        LET expected == SubSeq(TmpInName(last.route.ext), 1,
                               Len(TmpInName(last.route.ext)) - Len(last.route.ext))
                        \o PDF
            atExpected == {f \in last.run.files : f.name = expected}
            pdfs == PdfsOf(last.run)
        IN  /\ atExpected # {} => \A f \in atExpected : AnswersAsRenderer(f.data)
            /\ (atExpected = {} /\ pdfs # {}) =>
                  \E f \in pdfs : /\ \A g \in pdfs : g.mtime <= f.mtime
                                  /\ AnswersAsRenderer(f.data)
            /\ pdfs = {} => FailsWith("ConversionProducedNoOutput")

\* without the expected file, of an older x.pdf and a newer y.PDF the newer
\* one was rendered
C13_Witness ==
    /\ last.op = "generate"
    /\ last.route.converter = "office"
    /\ last.run.kind = "exit" /\ last.run.code = 0
    /\ last.run.files = {OutFile(<<"x">> \o PDF, 1, <<1, 0>>),
                         OutFile(<<"y", ".", "P", "D", "F">>, 2, <<1, 1>>)}
    /\ last.kind = "png"
    /\ last.png = Pixmap(<<1, 1>>)

\* the expected file was rendered although a newer PDF lay beside it
C13_WitnessExpected ==
    /\ last.op = "generate"
    /\ last.route.converter = "office"
    /\ last.run.files = {OutFile(ExpectedPdf, 1, <<1, 0>>),
                         OutFile(<<"x">> \o PDF, 2, <<1, 1>>)}
    /\ last.png = Pixmap(<<1, 0>>)

\* the ids drawn so far
IssuedIds == {Uuid4Hex(n) : n \in 1..issued}

\* C14: whatever uploads and deletes were served one after the other from
\* the empty store, no two records have the same id and no two records have
\* the same original file name.
C14_UniqueRecords ==
    \A i, j \in 1..Len(metadata) :
        (i # j) => /\ metadata[i].doc_id # metadata[j].doc_id
                   /\ metadata[i].filename # metadata[j].filename

\* a second record was stored beside a first one, and a third upload of a
\* recorded name was turned away or replaced the record
C14_Witness ==
    /\ Len(metadata) >= 1
    /\ last.op = "upload"
    /\ last.content # NoBytes
    /\ Named(pre.metadata, last.filename) # {}
    /\ Named(metadata, last.filename) # {}
    /\ last.status \in {200, 409}

\* two records of different names are stored
C14_WitnessTwo ==
    /\ Len(metadata) = 2
    /\ last.op = "upload" /\ last.status = 200

\* C15: a delete of the string d removes no record, no original and no
\* thumbnail of an id that differs from d.
C15_DeleteOnlyOwn ==
    (last.op = "delete") =>
        \A id \in IssuedIds :
            (id # last.arg) =>
                /\ HasKey(pre.metadata, id) => HasKey(metadata, id)
                /\ \A n \in DOMAIN pre.documents :
                      StartsWith(n, id) => n \in DOMAIN documents
                /\ Exists(pre.thumbnails, StoredThumbName(id))
                      => Exists(thumbnails, StoredThumbName(id))

\* C16: between requests, an id has a record exactly when its original
\* {id}{ext} exists and exactly when its thumbnail {id}.png exists.
C16_StoresAgree ==
    /\ \A i \in 1..Len(metadata) :
          /\ Exists(documents, StoredDocName(metadata[i].doc_id, metadata[i].extension))
          /\ Exists(thumbnails, StoredThumbName(metadata[i].doc_id))
    /\ \A n \in DOMAIN documents :
          \E i \in 1..Len(metadata) :
              n = StoredDocName(metadata[i].doc_id, metadata[i].extension)
    /\ \A n \in DOMAIN thumbnails :
          \E i \in 1..Len(metadata) : n = StoredThumbName(metadata[i].doc_id)

\* C17: an upload turned away as empty, as a duplicate or as too large
\* leaves the metadata, the originals and the thumbnails as they were; an
\* oversized upload of a recorded name with replace_existing is turned away
\* as too large with the prior record and blobs still in place.
C17_RejectedUnchanged ==
    (last.op = "upload") =>
        /\ (last.kind = "http"
              /\ last.detail.msg \in {"EmptyUpload", "DuplicateFilename", "TooLarge"})
              => Snapshot = pre
        /\ (/\ last.replace_existing
            /\ Named(pre.metadata, last.filename) # {}
            /\ Len(last.content) > MAX_FILE_SIZE) =>
              /\ last.status = 413
              /\ last.detail.msg = "TooLarge"
              /\ Snapshot = pre
              /\ Named(metadata, last.filename) = Named(pre.metadata, last.filename)

\* an oversized replacing upload of a recorded name was turned away
C17_Witness ==
    /\ last.op = "upload"
    /\ last.replace_existing
    /\ Named(pre.metadata, last.filename) # {}
    /\ Len(last.content) > MAX_FILE_SIZE
    /\ last.status = 413
    /\ Len(metadata) >= 1

\* C18: after a replacing upload whose conversion failed, the prior
\* document of that name is gone from the three stores and nothing of the new
\* one is left: the originals and thumbnails are those of before without the
\* prior document's, the records those of before without the prior record.
C18_ReplaceThenFail ==
    (/\ last.op = "upload"
     /\ last.replace_existing
     /\ WithinLimit(last.content)
     /\ Named(pre.metadata, last.filename) # {}
     /\ last.status # 200) =>
        \A r \in Named(pre.metadata, last.filename) :
            /\ metadata = remove_file_metadata(pre.metadata, r.doc_id)
            /\ thumbnails = Unlink(pre.thumbnails, {StoredThumbName(r.doc_id)})
            /\ documents = Unlink(pre.documents,
                                  {StoredDocName(r.doc_id, r.extension)})

\* worker t has answered 200
Succeeded(t) == tasks[t].pc = "done" /\ tasks[t].status = 200

\* the original and the thumbnail of worker t's upload are stored
BlobsOf(t) ==
    /\ Exists(documents, StoredDocName(tasks[t].doc_id, SplitExt(tasks[t].filename)))
    /\ documents[StoredDocName(tasks[t].doc_id, SplitExt(tasks[t].filename))]
          = tasks[t].content
    /\ Exists(thumbnails, StoredThumbName(tasks[t].doc_id))

\* two workers have both answered 200 to uploads of one file name, neither
\* with replace_existing
BothStoredSameName(t, u) ==
    /\ t # u
    /\ Succeeded(t) /\ Succeeded(u)
    /\ tasks[t].filename = tasks[u].filename
    /\ ~tasks[t].replace_existing /\ ~tasks[u].replace_existing

====
